---- MODULE Spec2Model ----
(***************************************************************************)
(* Model of the mount manager of docker-volume-netshare                    *)
(* (netshare/drivers/mounts.go).  Every host runs one mountManager whose   *)
(* `host` field is its hostname; all managers share one Consul KV store.   *)
(* Each access to the KV store (Get, Put, Delete) is one atomic step; the  *)
(* code between two accesses works on the caller's local copy of the       *)
(* record.                                                                 *)
(***************************************************************************)
EXTENDS Integers, Sequences, FiniteSets, TLC

\* ------------------------------------------------------------------ bounds
\* Largest reference count a host is allowed to reach: Add and Increment are
\* only invoked while the caller's stored count is below it.
MaxCount == 2

\* ------------------------------------------------------------- input sets
Hosts == {"h1", "h2"}
Procs == Hosts
Names == {"vol1"}
Dirs == {"/mnt/a", "/mnt/b"}

\* ------------------------------------------------------------ Go values
\* A Go map is a function on the set of its keys.
EmptyMap == [k \in {} |-> ""]

MapPut(f, k, v) == [x \in (DOMAIN f) \cup {k} |-> IF x = k THEN v ELSE f[x]]

\* map[string]string is a reference type: the nil map and the empty map differ.
NilOpts == [isNil |-> TRUE, kv |-> EmptyMap]

MkOpts(f) == [isNil |-> FALSE, kv |-> f]

\* The option maps callers pass to Create.
OptsVals ==
  {MkOpts(EmptyMap), MkOpts([k \in {"a"} |-> "1"]), MkOpts([k \in {"a"} |-> "2"])}

\* Where calls interleave, every host mounts under the same root and creates
\* volumes without options.
SharedDirs == {"/mnt/a"}

SharedOpts == {MkOpts(EmptyMap)}

\* The nil *mount.
NilMount == [isNil |-> TRUE]

\* mount{Name, HostDir, Opts, Managed, Connections}
MkMount(name, hostdir, opts, managed, conns) ==
  [Name |-> name, HostDir |-> hostdir, Opts |-> opts, Managed |-> managed,
   Connections |-> conns]

\* mount.Connections[host]: a missing key reads as 0.
ConnCount(m, h) == IF h \in DOMAIN m.Connections THEN m.Connections[h] ELSE 0

\* json.Marshal of a mount: a nil Opts map is written as null.
Marshal(m) ==
  [Name |-> m.Name, HostDir |-> m.HostDir,
   Opts |-> IF m.Opts.isNil THEN [null |-> TRUE, obj |-> EmptyMap]
                            ELSE [null |-> FALSE, obj |-> m.Opts.kv],
   Managed |-> m.Managed, Connections |-> m.Connections]

\* json.Unmarshal into mount{}: null leaves the zero value (the nil map).
Unmarshal(doc) ==
  MkMount(doc.Name, doc.HostDir,
          IF doc.Opts.null THEN NilOpts ELSE MkOpts(doc.Opts.obj),
          doc.Managed, doc.Connections)

\* -------------------------------------------------------------- state
VARIABLES
  store,  \* the Consul KV store: key (name) -> JSON document, for stored keys
  pc,     \* per caller: the place in the code
  op,     \* per caller: the operation in progress and its arguments
  mnt,    \* per caller: the local *mount the code works on
  ret,    \* per caller: the value the operation returned
  pre,    \* history: the store when the latest operation was invoked
  rt,     \* history: an Increment just completed with no operation since
  e2e,    \* history: progress of the create/add/decrement/deleteIfNotManaged run
  rderr,  \* history: a store read of the call in progress ended in an error
  um,     \* history: a Decrement just took an unmanaged record's last count
  vault,  \* the secrets client and service: the secret stored for each name
  str     \* the name or share path handed to a string helper, and its result

vars == <<store, pc, op, mnt, ret, pre, rt, e2e, rderr, um, vault, str>>

hist == <<pre, rt, e2e>>

\* What the calls on the store records leave alone.
aux == <<rderr, um, vault, str>>

NoOp == [kind |-> "none", name |-> "", hostdir |-> "", opts |-> NilOpts]

MkOp(kind, name, hostdir, opts) ==
  [kind |-> kind, name |-> name,
   hostdir |-> IF kind \in {"Add", "Create"} THEN hostdir ELSE "",
   opts |-> IF kind = "Create" THEN opts ELSE NilOpts]

Kinds == {"Add", "Create", "Delete", "DeleteIfNotManaged", "Increment", "Decrement"}

\* The first store access of each operation.
Entry(kind) ==
  CASE kind = "Add" -> "Add_get"
    [] kind = "Create" -> "Create_get"
    [] kind = "Delete" -> "Delete_log"
    [] kind = "DeleteIfNotManaged" -> "Dinm_has"
    [] kind = "Increment" -> "Increment_get"
    [] kind = "Decrement" -> "Decrement_get"

\* Return values.
RetNone == [tag |-> "none", int |-> 0, err |-> "", mount |-> NilMount]

RetVoid == [tag |-> "void", int |-> 0, err |-> "", mount |-> NilMount]

RetInt(n) == [tag |-> "int", int |-> n, err |-> "", mount |-> NilMount]

RetNilErr == [tag |-> "error", int |-> 0, err |-> "nil", mount |-> NilMount]

RetInUse ==
  [tag |-> "error", int |-> 0, err |-> "Volume is currently in use",
   mount |-> NilMount]

RetMount(m) == [tag |-> "mount", int |-> 0, err |-> "", mount |-> m]

\* A nil pointer dereference: the call ends in a run-time panic.
RetPanic == [tag |-> "panic", int |-> 0, err |-> "", mount |-> NilMount]

\* ------------------------------------------------------ the store client
\* getConsulMount: nil when the key is absent, else the decoded record.
getConsulMount(name) ==
  IF name \in DOMAIN store THEN Unmarshal(store[name]) ELSE NilMount

\* consulKV.Put: an unconditional write of the encoded record under its name.
StorePut(m) == [n \in (DOMAIN store) \cup {m.Name} |->
                  IF n = m.Name THEN Marshal(m) ELSE store[n]]

\* consulKV.Delete: the key is gone afterwards, stored or not.
StoreDelete(name) == [n \in (DOMAIN store) \ {name} |-> store[n]]

\* Count(name) on the given host.
Count(h, name) ==
  IF getConsulMount(name) # NilMount THEN ConnCount(getConsulMount(name), h) ELSE 0

HasMount(name) == getConsulMount(name) # NilMount

\* IsActiveMount that takes a count of 0 for a use.
IsActiveMountFromZero(h, name) ==
  getConsulMount(name) # NilMount /\ ConnCount(getConsulMount(name), h) >= 0

IsActiveMount(h, name) ==
  getConsulMount(name) # NilMount /\ ConnCount(getConsulMount(name), h) > 0

NoRoundTrip == [on |-> FALSE, proc |-> "", name |-> "", count |-> 0]

NoRun == [stage |-> 0, proc |-> "", name |-> ""]

NoUnmount == [on |-> FALSE, proc |-> "", name |-> ""]

\* No secrets client is configured and no secret is stored for any name;
\* last is the outcome of the latest fetch.
NoSecrets == [client |-> FALSE, secret |-> [n \in {} |-> EmptyMap], last |-> "none"]

\* No string helper has been called: its argument, the result of a first
\* call where it is called twice, its result and the options it derived.
NoString == [fn |-> "none", in |-> <<>>, mid |-> <<>>, out |-> <<>>, opts |-> NilOpts]

TypeOK ==
  /\ DOMAIN store \subseteq Names
  /\ pc \in [Procs -> STRING]
  /\ DOMAIN op = Procs
  /\ DOMAIN mnt = Procs
  /\ DOMAIN ret = Procs

Init ==
  /\ store = [n \in {} |-> Marshal(MkMount("", "", NilOpts, FALSE, EmptyMap))]
  /\ pc = [p \in Procs |-> "idle"]
  /\ op = [p \in Procs |-> NoOp]
  /\ mnt = [p \in Procs |-> NilMount]
  /\ ret = [p \in Procs |-> RetNone]
  /\ pre = store
  /\ rt = NoRoundTrip
  /\ e2e = NoRun
  /\ rderr = FALSE
  /\ um = NoUnmount
  /\ vault = NoSecrets
  /\ str = NoString

\* ------------------------------------------- the code between accesses
\* NewUnmanaged with the count Create starts from.
NewUnmanagedAtZero(name, hostdir, h) ==
  MkMount(name, hostdir, NilOpts, FALSE, [x \in {h} |-> 0])

\* Add, lines 214-216: the record of a name seen for the first time.
NewUnmanaged(name, hostdir, h) ==
  MkMount(name, hostdir, NilOpts, FALSE, [x \in {h} |-> 1])

\* Create, lines 228-230: a managed record that holds only the caller's host.
NewManaged(name, hostdir, opts, h) ==
  MkMount(name, hostdir, opts, TRUE, [x \in {h} |-> 0])

\* CreateMount without the branch for a volume mounted on the caller's host.
CreateMountAlwaysNew(m, h, name, hostdir, opts) ==
  NewManaged(name, hostdir, opts, h)

\* Create, lines 223-233: what Create writes, given what it read.
CreateMount(m, h, name, hostdir, opts) ==
  IF m # NilMount /\ ConnCount(m, h) > 0
    THEN [m EXCEPT !.Opts = opts]
    ELSE NewManaged(name, hostdir, opts, h)

\* Increment, line 264: mount.Connections[m.host]++
IncrementMount(m, h) ==
  [m EXCEPT !.Connections = MapPut(@, h, ConnCount(m, h) + 1)]

\* DecrementGuard without the floor at 0.
DecrementGuardNoFloor(m, h) == m # NilMount

\* Decrement, line 273: the condition under which the count is lowered.
DecrementGuard(m, h) == m # NilMount /\ ConnCount(m, h) > 0

\* DecrementMount that resets the count instead of lowering it by one.
DecrementMountToZero(m, h) == [m EXCEPT !.Connections = MapPut(@, h, 0)]

\* Decrement, line 274: mount.Connections[m.host]--
DecrementMount(m, h) ==
  [m EXCEPT !.Connections = MapPut(@, h, ConnCount(m, h) - 1)]

\* Increment, line 266: the value Increment returns after its write.
IncrementReturn(m, h) == RetInt(ConnCount(m, h))

\* Decrement, line 277: the value Decrement returns.
DecrementReturn(m, h) == RetInt(0)

\* DeleteAllowed with the comparison off by one.
DeleteAllowedOffByOne(count) == count <= 1

\* Delete, line 239: the count that lets Delete go on to delete.
DeleteAllowed(count) == count < 1

\* DinmKeeps without the check of the Managed flag.
DinmKeepsNothing(m) == FALSE

\* DeleteIfNotManaged, line 252: the record is left alone.
DinmKeeps(m) == m.Managed

\* What the operation returns once putConsulMount has written.
AfterPut(kind, m, h) ==
  CASE kind = "Increment" -> IncrementReturn(m, h)
    [] kind = "Decrement" -> DecrementReturn(m, h)
    [] kind = "Create" -> RetMount(m)
    [] kind = "Add" -> RetVoid

\* ------------------------------------------------------------- actions
NoneDone == \A q \in Procs : pc[q] # "done"

AllIdle == \A q \in Procs : pc[q] = "idle"

\* A caller invokes an operation of its host's manager.  The result of a
\* completed call is handed over (Return) before a further call is invoked.
Invoke(p, kind, name, hostdir, opts) ==
  /\ pc[p] = "idle"
  /\ NoneDone
  /\ kind \in {"Add", "Increment"} => Count(p, name) < MaxCount
  /\ op' = [op EXCEPT ![p] = MkOp(kind, name, hostdir, opts)]
  /\ pc' = [pc EXCEPT ![p] = Entry(kind)]
  /\ mnt' = [mnt EXCEPT ![p] = NilMount]
  /\ ret' = [ret EXCEPT ![p] = RetNone]
  /\ UNCHANGED store

Call(p) ==
  /\ \E kind \in Kinds, name \in Names, hostdir \in SharedDirs, opts \in SharedOpts :
       Invoke(p, kind, name, hostdir, opts)
  /\ UNCHANGED <<hist, aux>>

\* The operation ends with return value r.
Finish(p, r) ==
  /\ pc' = [pc EXCEPT ![p] = "done"]
  /\ ret' = [ret EXCEPT ![p] = r]

Goto(p, label) ==
  /\ pc' = [pc EXCEPT ![p] = label]
  /\ UNCHANGED ret

\* Add, line 210.
AddGet(p) ==
  /\ pc[p] = "Add_get"
  /\ IF getConsulMount(op[p].name) # NilMount
       THEN /\ Goto(p, "Increment_get")
            /\ UNCHANGED mnt
       ELSE /\ Goto(p, "put_get")
            /\ mnt' = [mnt EXCEPT ![p] = NewUnmanaged(op[p].name, op[p].hostdir, p)]
  /\ UNCHANGED <<store, op, hist, aux>>

\* Increment, lines 262-264 (also reached from Add, line 212).
IncrementGet(p) ==
  /\ pc[p] = "Increment_get"
  /\ Count(p, op[p].name) < MaxCount
  /\ IF getConsulMount(op[p].name) # NilMount
       THEN /\ Goto(p, "put_get")
            /\ mnt' = [mnt EXCEPT ![p] = IncrementMount(getConsulMount(op[p].name), p)]
       ELSE /\ Finish(p, IF op[p].kind = "Add" THEN RetVoid ELSE RetInt(0))
            /\ UNCHANGED mnt
  /\ UNCHANGED <<store, op, hist, aux>>

\* Decrement, lines 272-274 and 277.
DecrementGet(p) ==
  /\ pc[p] = "Decrement_get"
  /\ IF DecrementGuard(getConsulMount(op[p].name), p)
       THEN /\ Goto(p, "put_get")
            /\ mnt' = [mnt EXCEPT ![p] = DecrementMount(getConsulMount(op[p].name), p)]
       ELSE /\ Finish(p, RetInt(0))
            /\ UNCHANGED mnt
  /\ UNCHANGED <<store, op, hist, aux>>

\* Create, lines 222-224 and 228-230.
CreateGet(p) ==
  /\ pc[p] = "Create_get"
  /\ Goto(p, "put_get")
  /\ mnt' = [mnt EXCEPT ![p] =
               CreateMount(getConsulMount(op[p].name), p, op[p].name,
                           op[p].hostdir, op[p].opts)]
  /\ UNCHANGED <<store, op, hist, aux>>

\* putConsulMount, line 124: the Get whose result the Put does not depend on.
PutGet(p) ==
  /\ pc[p] = "put_get"
  /\ Goto(p, "put_put")
  /\ UNCHANGED <<store, op, mnt, hist, aux>>

\* putConsulMount, lines 132-136: the local record replaces the stored one.
PutPut(p) ==
  /\ pc[p] = "put_put"
  /\ store' = StorePut(mnt[p])
  /\ Finish(p, AfterPut(op[p].kind, mnt[p], p))
  /\ UNCHANGED <<op, mnt, hist, aux>>

\* Delete, line 237: Count(name) is read for the log line.
DeleteLog(p) ==
  /\ pc[p] = "Delete_log"
  /\ Goto(p, "Delete_has")
  /\ UNCHANGED <<store, op, mnt, hist, aux>>

\* Delete, line 238.
DeleteHas(p) ==
  /\ pc[p] = "Delete_has"
  /\ IF HasMount(op[p].name)
       THEN Goto(p, "Delete_count")
       ELSE Goto(p, "Delete_delete")
  /\ UNCHANGED <<store, op, mnt, hist, aux>>

\* Delete, lines 239 and 243.
DeleteCount(p) ==
  /\ pc[p] = "Delete_count"
  /\ IF DeleteAllowed(Count(p, op[p].name))
       THEN Goto(p, "Delete_delete")
       ELSE Finish(p, RetInUse)
  /\ UNCHANGED <<store, op, mnt, hist, aux>>

\* Delete, lines 240-241 and 245-246: deleteConsulMount.
DeleteDelete(p) ==
  /\ pc[p] = "Delete_delete"
  /\ store' = StoreDelete(op[p].name)
  /\ Finish(p, RetNilErr)
  /\ UNCHANGED <<op, mnt, hist, aux>>

\* DeleteIfNotManaged, line 250: HasMount.
DinmHas(p) ==
  /\ pc[p] = "Dinm_has"
  /\ IF HasMount(op[p].name)
       THEN Goto(p, "Dinm_active")
       ELSE Finish(p, RetNilErr)
  /\ UNCHANGED <<store, op, mnt, hist, aux>>

\* DeleteIfNotManaged, line 250: IsActiveMount.
DinmActive(p) ==
  /\ pc[p] = "Dinm_active"
  /\ IF ~IsActiveMount(p, op[p].name)
       THEN Goto(p, "Dinm_get")
       ELSE Finish(p, RetNilErr)
  /\ UNCHANGED <<store, op, mnt, hist, aux>>

\* DeleteIfNotManaged, lines 251-256: mount.Managed is read through the
\* pointer getConsulMount returned, which is nil when the key has gone.
DinmGet(p) ==
  /\ pc[p] = "Dinm_get"
  /\ mnt' = [mnt EXCEPT ![p] = getConsulMount(op[p].name)]
  /\ IF getConsulMount(op[p].name) = NilMount
       THEN Finish(p, RetPanic)
       ELSE IF DinmKeeps(getConsulMount(op[p].name))
              THEN Finish(p, RetNilErr)
              ELSE Goto(p, "Delete_log")
  /\ UNCHANGED <<store, op, hist, aux>>

\* The caller takes the result.
Deliver(p) ==
  /\ pc[p] = "done"
  /\ pc' = [pc EXCEPT ![p] = "idle"]
  /\ op' = [op EXCEPT ![p] = NoOp]
  /\ mnt' = [mnt EXCEPT ![p] = NilMount]
  /\ ret' = [ret EXCEPT ![p] = RetNone]
  /\ UNCHANGED store

Return(p) ==
  /\ Deliver(p)
  /\ UNCHANGED <<hist, aux>>

Step(p) ==
  \/ AddGet(p)
  \/ IncrementGet(p)
  \/ DecrementGet(p)
  \/ CreateGet(p)
  \/ PutGet(p)
  \/ PutPut(p)
  \/ DeleteLog(p)
  \/ DeleteHas(p)
  \/ DeleteCount(p)
  \/ DeleteDelete(p)
  \/ DinmHas(p)
  \/ DinmActive(p)
  \/ DinmGet(p)

Next == \E p \in Procs : Call(p) \/ Step(p) \/ Return(p)

\* The hosts' calls interleave freely, store access by store access.
Spec == Init /\ [][Next]_vars

\* ------------------------------------------------ one call at a time
\* The caller's count in the record the store held at the invocation.
PreHas(name) == name \in DOMAIN pre

PreMount(name) == Unmarshal(pre[name])

PreCount(h, name) == IF PreHas(name) THEN ConnCount(PreMount(name), h) ELSE 0

\* A call is invoked only when no other call is in progress.
SeqCall(p) ==
  /\ AllIdle
  /\ \E kind \in Kinds, name \in Names, hostdir \in Dirs, opts \in OptsVals :
       Invoke(p, kind, name, hostdir, opts)
  /\ pre' = store
  /\ UNCHANGED <<rt, e2e, aux>>

\* The Increment that has just returned, on a record that existed, and the
\* caller's count before it.
RoundTripAfter(p) ==
  IF op[p].kind = "Increment" /\ PreHas(op[p].name)
    THEN [on |-> TRUE, proc |-> p, name |-> op[p].name,
          count |-> PreCount(p, op[p].name)]
    ELSE NoRoundTrip

\* How far the calls returned so far, all of one host on one name, have got
\* through Create (no record before), Add, Decrement, DeleteIfNotManaged.
RunAfter(p) ==
  LET same == e2e.proc = p /\ e2e.name = op[p].name
      k == op[p].kind
  IN  IF k = "Create" /\ ~PreHas(op[p].name)
        THEN [stage |-> 1, proc |-> p, name |-> op[p].name]
        ELSE IF same /\ e2e.stage = 1 /\ k = "Add"
               THEN [e2e EXCEPT !.stage = 2]
               ELSE IF same /\ e2e.stage = 2 /\ k = "Decrement"
                      THEN [e2e EXCEPT !.stage = 3]
                      ELSE IF same /\ e2e.stage = 3 /\ k = "DeleteIfNotManaged"
                             THEN [e2e EXCEPT !.stage = 4]
                             ELSE NoRun

\* The Decrement that has just returned took the last count off an
\* unmanaged record that no other host holds: the caller unmounts and goes
\* on to DeleteIfNotManaged.
UnmountAfter(p) ==
  IF /\ op[p].kind = "Decrement"
     /\ PreHas(op[p].name)
     /\ ~PreMount(op[p].name).Managed
     /\ PreCount(p, op[p].name) = 1
     /\ \A h \in Hosts \ {p} : PreCount(h, op[p].name) = 0
    THEN [on |-> TRUE, proc |-> p, name |-> op[p].name]
    ELSE NoUnmount

SeqReturn(p) ==
  /\ Deliver(p)
  /\ rt' = RoundTripAfter(p)
  /\ e2e' = RunAfter(p)
  /\ um' = UnmountAfter(p)
  /\ UNCHANGED <<pre, rderr, vault, str>>

NextSeq == \E p \in Procs : SeqCall(p) \/ Step(p) \/ SeqReturn(p)

\* The calls of all hosts run one after the other.
SpecSeq == Init /\ [][NextSeq]_vars

\* ------------------------------------------- store accesses that fail
\* Any single access to the store may end in an error (the store is
\* unreachable, the request times out) and the next one may succeed again.
\* The calls run one after the other.
FailKinds == {"Add", "Create", "Increment"}

FailCall(p) ==
  /\ AllIdle
  /\ \E kind \in FailKinds, name \in Names, hostdir \in Dirs, opts \in OptsVals :
       Invoke(p, kind, name, hostdir, opts)
  /\ pre' = store
  /\ rderr' = FALSE
  /\ UNCHANGED <<rt, e2e, um, vault, str>>

\* getConsulMount, lines 71-77, when consulKV.Get fails: the error is logged,
\* the key is nil and the caller is given nil, as for a name without record.
getConsulMountErr == NilMount

\* Add, line 210, the read failing: lines 214-217 follow.
AddGetErr(p) ==
  /\ pc[p] = "Add_get"
  /\ getConsulMountErr = NilMount
  /\ Goto(p, "put_get")
  /\ mnt' = [mnt EXCEPT ![p] = NewUnmanaged(op[p].name, op[p].hostdir, p)]
  /\ rderr' = TRUE
  /\ UNCHANGED <<store, op, hist, um, vault, str>>

\* Create, line 222, the read failing: lines 228-231 follow.
CreateGetErr(p) ==
  /\ pc[p] = "Create_get"
  /\ Goto(p, "put_get")
  /\ mnt' = [mnt EXCEPT ![p] =
               CreateMount(getConsulMountErr, p, op[p].name, op[p].hostdir,
                           op[p].opts)]
  /\ rderr' = TRUE
  /\ UNCHANGED <<store, op, hist, um, vault, str>>

\* Increment, line 262, the read failing: line 268 follows.
IncrementGetErr(p) ==
  /\ pc[p] = "Increment_get"
  /\ getConsulMountErr = NilMount
  /\ Finish(p, IF op[p].kind = "Add" THEN RetVoid ELSE RetInt(0))
  /\ rderr' = TRUE
  /\ UNCHANGED <<store, op, mnt, hist, um, vault, str>>

\* putConsulMount, lines 124-128: consulKV.Get fails and the error is
\* returned before anything is written; Add, Create and Increment drop it.
PutGetErr(p) ==
  /\ pc[p] = "put_get"
  /\ Finish(p, AfterPut(op[p].kind, mnt[p], p))
  /\ UNCHANGED <<store, op, mnt, hist, aux>>

\* putConsulMount, lines 134-136: consulKV.Put fails, nothing is stored and
\* the error is returned; Add, Create and Increment drop it.
PutPutErr(p) ==
  /\ pc[p] = "put_put"
  /\ Finish(p, AfterPut(op[p].kind, mnt[p], p))
  /\ UNCHANGED <<store, op, mnt, hist, aux>>

NextFail ==
  \E p \in Procs :
    \/ FailCall(p)
    \/ AddGet(p)
    \/ IncrementGet(p)
    \/ CreateGet(p)
    \/ PutGet(p)
    \/ PutPut(p)
    \/ AddGetErr(p)
    \/ CreateGetErr(p)
    \/ IncrementGetErr(p)
    \/ PutGetErr(p)
    \/ PutPutErr(p)
    \/ Return(p)

SpecFail == Init /\ [][NextFail]_vars

\* ------------------------------------------------- the option getters
OptKeys == {"a", "b"}

\* The option maps Create is given where the getters run.
GetterOpts ==
  {MkOpts(EmptyMap), MkOpts([k \in {"a"} |-> "True"]), MkOpts([k \in {"a"} |-> "1"])}

ReadKinds == {"HasOptions", "HasOption", "GetOptions", "GetOption", "GetOptionAsBool"}

MkReadOp(kind, name, key) ==
  [kind |-> kind, name |-> name, hostdir |-> "", opts |-> NilOpts,
   key |-> IF kind \in {"HasOptions", "GetOptions"} THEN "" ELSE key]

RetBool(b) == [tag |-> "bool", bool |-> b]

RetStr(v) == [tag |-> "string", string |-> v]

RetOpts(o) == [tag |-> "options", options |-> o]

\* strings.ToLower on the option values in use.
ToLower(v) ==
  CASE v = "True" -> "true"
    [] v = "TRUE" -> "true"
    [] v = "Yes" -> "yes"
    [] v = "YES" -> "yes"
    [] OTHER -> v

\* GetOptionAsBool, lines 189-193.
AsBool(v) == ToLower(v) = "yes" \/ ToLower(v) = "true"

\* HasOptions, lines 155-158, on the pointer getConsulMount returned.
HasOptionsOf(m) ==
  IF m # NilMount THEN ~m.Opts.isNil /\ Cardinality(DOMAIN m.Opts.kv) > 0 ELSE FALSE

\* What a getter returns when HasOptions or HasOption answers false.
GetterDefault(kind) ==
  CASE kind \in {"HasOptions", "HasOption", "GetOptionAsBool"} -> RetBool(FALSE)
    [] kind = "GetOption" -> RetStr("")
    [] kind = "GetOptions" -> RetOpts(MkOpts(EmptyMap))

\* A caller invokes a getter, Create or Delete; the calls interleave.
GetterCall(p) ==
  /\ \/ \E kind \in {"Create", "Delete"}, name \in Names, hostdir \in SharedDirs,
           opts \in GetterOpts : Invoke(p, kind, name, hostdir, opts)
     \/ \E kind \in ReadKinds, name \in Names, key \in OptKeys :
          /\ pc[p] = "idle"
          /\ NoneDone
          /\ op' = [op EXCEPT ![p] = MkReadOp(kind, name, key)]
          /\ pc' = [pc EXCEPT ![p] = "Opt_has"]
          /\ mnt' = [mnt EXCEPT ![p] = NilMount]
          /\ ret' = [ret EXCEPT ![p] = RetNone]
          /\ UNCHANGED store
  /\ UNCHANGED <<hist, aux>>

\* HasOptions, lines 154-158: the first read of every getter.
OptHas(p) ==
  /\ pc[p] = "Opt_has"
  /\ mnt' = [mnt EXCEPT ![p] = getConsulMount(op[p].name)]
  /\ IF HasOptionsOf(getConsulMount(op[p].name))
       THEN IF op[p].kind = "HasOptions"
              THEN Finish(p, RetBool(TRUE))
              ELSE IF op[p].kind = "GetOptions"
                     THEN Goto(p, "Opt_all")
                     ELSE Goto(p, "Opt_key")
       ELSE Finish(p, GetterDefault(op[p].kind))
  /\ UNCHANGED <<store, op, hist, aux>>

\* HasOption, lines 163-168: the record is read again and mount.Opts[key] is
\* looked up through the pointer, which is nil when the key has gone.
OptKey(p) ==
  /\ pc[p] = "Opt_key"
  /\ mnt' = [mnt EXCEPT ![p] = getConsulMount(op[p].name)]
  /\ IF getConsulMount(op[p].name) = NilMount
       THEN Finish(p, RetPanic)
       ELSE IF op[p].key \in DOMAIN getConsulMount(op[p].name).Opts.kv
              THEN IF op[p].kind = "HasOption"
                     THEN Finish(p, RetBool(TRUE))
                     ELSE Goto(p, "Opt_val")
              ELSE Finish(p, GetterDefault(op[p].kind))
  /\ UNCHANGED <<store, op, hist, aux>>

\* GetOptions, lines 173-174: the record is read again for mount.Opts.
OptAll(p) ==
  /\ pc[p] = "Opt_all"
  /\ mnt' = [mnt EXCEPT ![p] = getConsulMount(op[p].name)]
  /\ IF getConsulMount(op[p].name) = NilMount
       THEN Finish(p, RetPanic)
       ELSE Finish(p, RetOpts(getConsulMount(op[p].name).Opts))
  /\ UNCHANGED <<store, op, hist, aux>>

\* GetOption, lines 181-183 (and GetOptionAsBool, lines 189-193): the record
\* is read a third time for mount.Opts[key].
OptVal(p) ==
  /\ pc[p] = "Opt_val"
  /\ mnt' = [mnt EXCEPT ![p] = getConsulMount(op[p].name)]
  /\ IF getConsulMount(op[p].name) = NilMount
       THEN Finish(p, RetPanic)
       ELSE LET kv == getConsulMount(op[p].name).Opts.kv
                v == IF op[p].key \in DOMAIN kv THEN kv[op[p].key] ELSE ""
            IN  Finish(p, IF op[p].kind = "GetOption"
                            THEN RetStr(v) ELSE RetBool(AsBool(v)))
  /\ UNCHANGED <<store, op, hist, aux>>

NextGetter ==
  \E p \in Procs :
    \/ GetterCall(p)
    \/ CreateGet(p)
    \/ PutGet(p)
    \/ PutPut(p)
    \/ DeleteLog(p)
    \/ DeleteHas(p)
    \/ DeleteCount(p)
    \/ DeleteDelete(p)
    \/ OptHas(p)
    \/ OptKey(p)
    \/ OptAll(p)
    \/ OptVal(p)
    \/ Return(p)

\* Getters of one host interleave with Create and Delete of the other.
SpecGetter == Init /\ [][NextGetter]_vars

\* ------------------------------------------------- the secrets overlay
\* The secret mappings stored under BaseKey + name.
SecretVals == {[k \in {"a"} |-> "9"], [k \in {"a", "b"} |-> IF k = "a" THEN "9" ELSE "8"]}

\* The secrets client is configured or nil; a secret is stored for every
\* name or for none.
VaultStates ==
  {[client |-> c, secret |-> s, last |-> "none"] :
     c \in BOOLEAN,
     s \in {NoSecrets.secret} \cup {[n \in Names |-> S] : S \in SecretVals}}

InitVault ==
  /\ store = [n \in {} |-> Marshal(MkMount("", "", NilOpts, FALSE, EmptyMap))]
  /\ pc = [p \in Procs |-> "idle"]
  /\ op = [p \in Procs |-> NoOp]
  /\ mnt = [p \in Procs |-> NilMount]
  /\ ret = [p \in Procs |-> RetNone]
  /\ pre = store
  /\ rt = NoRoundTrip
  /\ e2e = NoRun
  /\ rderr = FALSE
  /\ um = NoUnmount
  /\ vault \in VaultStates
  /\ str = NoString

FillKinds == {"FillVaultConfigInMount", "FillVaultConfigInOpts"}

\* The opts argument of FillVaultConfigInOpts.
FillOpts == OptsVals \cup {NilOpts}

\* for key, val := range data { opts[key] = val.(string) }
Overlay(kv, data) ==
  [k \in (DOMAIN kv) \cup (DOMAIN data) |-> IF k \in DOMAIN data THEN data[k] ELSE kv[k]]

\* FillVaultConfigInMount, lines 103-109, with the record and the data read:
\* the loop assigns through mount and into mount.Opts.
FillVaultConfigInMount(m, data) ==
  IF data.isNil \/ DOMAIN data.kv = {}
    THEN RetMount(m)
    ELSE IF m = NilMount
           THEN RetPanic
           ELSE IF m.Opts.isNil
                  THEN RetPanic
                  ELSE RetMount([m EXCEPT !.Opts = MkOpts(Overlay(m.Opts.kv, data.kv))])

\* FillVaultConfigInOpts, lines 114-120.
FillVaultConfigInOpts(opts, data) ==
  IF data.isNil \/ DOMAIN data.kv = {}
    THEN RetOpts(opts)
    ELSE IF opts.isNil
           THEN RetPanic
           ELSE RetOpts(MkOpts(Overlay(opts.kv, data.kv)))

\* The caller of getVaultConfig goes on with the data it returned.
FillWith(p, data) ==
  IF op[p].kind = "FillVaultConfigInMount"
    THEN FillVaultConfigInMount(mnt[p], data)
    ELSE FillVaultConfigInOpts(op[p].opts, data)

\* One call at a time: Add and Create fill the store, the Fill calls read it.
VaultCall(p) ==
  /\ AllIdle
  /\ \/ \E kind \in {"Add", "Create"}, name \in Names, hostdir \in SharedDirs,
           opts \in OptsVals : Invoke(p, kind, name, hostdir, opts)
     \/ \E kind \in FillKinds, name \in Names, opts \in FillOpts :
          /\ op' = [op EXCEPT ![p] =
                      MkOp(kind, name, "",
                           IF kind = "FillVaultConfigInOpts" THEN opts ELSE NilOpts)]
          /\ pc' = [pc EXCEPT ![p] =
                      IF kind = "FillVaultConfigInMount" THEN "FillMount_get"
                                                         ELSE "Vault_login"]
          /\ mnt' = [mnt EXCEPT ![p] = NilMount]
          /\ ret' = [ret EXCEPT ![p] = RetNone]
          /\ UNCHANGED store
  /\ vault' = [vault EXCEPT !.last = "none"]
  /\ UNCHANGED <<hist, rderr, um, str>>

\* FillVaultConfigInMount, line 102.
FillMountGet(p) ==
  /\ pc[p] = "FillMount_get"
  /\ mnt' = [mnt EXCEPT ![p] = getConsulMount(op[p].name)]
  /\ Goto(p, "Vault_login")
  /\ UNCHANGED <<store, op, hist, aux>>

\* getVaultConfig, lines 85-87: no client is configured.
VaultNoClient(p) ==
  /\ pc[p] = "Vault_login"
  /\ ~vault.client
  /\ Finish(p, FillWith(p, NilOpts))
  /\ vault' = [vault EXCEPT !.last = "no client"]
  /\ UNCHANGED <<store, op, mnt, hist, rderr, um, str>>

\* getVaultConfig, lines 88-96: the login succeeds.
VaultLogin(p) ==
  /\ pc[p] = "Vault_login"
  /\ vault.client
  /\ Goto(p, "Vault_read")
  /\ UNCHANGED <<store, op, mnt, hist, aux>>

\* getVaultConfig, lines 92-95: the login fails.
VaultLoginErr(p) ==
  /\ pc[p] = "Vault_login"
  /\ vault.client
  /\ Finish(p, FillWith(p, NilOpts))
  /\ vault' = [vault EXCEPT !.last = "login failed"]
  /\ UNCHANGED <<store, op, mnt, hist, rderr, um, str>>

\* getVaultConfig, lines 97-98: the read returns the secret stored.
VaultRead(p) ==
  /\ pc[p] = "Vault_read"
  /\ op[p].name \in DOMAIN vault.secret
  /\ Finish(p, FillWith(p, MkOpts(vault.secret[op[p].name])))
  /\ vault' = [vault EXCEPT !.last = "found"]
  /\ UNCHANGED <<store, op, mnt, hist, rderr, um, str>>

\* getVaultConfig, lines 97-98: nothing is stored at the path, the client
\* returns a nil secret and no error, and secret.Data is read through it.
VaultReadNone(p) ==
  /\ pc[p] = "Vault_read"
  /\ op[p].name \notin DOMAIN vault.secret
  /\ Finish(p, RetPanic)
  /\ vault' = [vault EXCEPT !.last = "not found"]
  /\ UNCHANGED <<store, op, mnt, hist, rderr, um, str>>

\* getVaultConfig, lines 97-98: the read fails, err is dropped and
\* secret.Data is read through the nil secret returned with it.
VaultReadErr(p) ==
  /\ pc[p] = "Vault_read"
  /\ Finish(p, RetPanic)
  /\ vault' = [vault EXCEPT !.last = "read failed"]
  /\ UNCHANGED <<store, op, mnt, hist, rderr, um, str>>

NextVault ==
  \E p \in Procs :
    \/ VaultCall(p)
    \/ AddGet(p)
    \/ IncrementGet(p)
    \/ CreateGet(p)
    \/ PutGet(p)
    \/ PutPut(p)
    \/ FillMountGet(p)
    \/ VaultNoClient(p)
    \/ VaultLogin(p)
    \/ VaultLoginErr(p)
    \/ VaultRead(p)
    \/ VaultReadNone(p)
    \/ VaultReadErr(p)
    \/ Return(p)

\* Add, Create and the Fill calls, one call at a time, against every
\* configuration of the secrets client.
SpecVault == InitVault /\ [][NextVault]_vars

\* --------------------------------------------- names and share paths
\* A string is the sequence of its characters.
Chars == {"a", "#", "/", ":"}

MaxLen == 4

Strings == UNION {[1..n -> Chars] : n \in 0..MaxLen}

ShareSplitIndentifer == "#"

ShareOpt == "share"

CreateOpt == "create"

\* strings.Contains(s, c) for a separator of one character.
Contains(s, c) == \E i \in 1..Len(s) : s[i] = c

\* strings.Index(s, c), counting from 1; 0 when c does not occur.
Index(s, c) ==
  IF Contains(s, c)
    THEN CHOOSE i \in 1..Len(s) : s[i] = c /\ \A j \in 1..(i - 1) : s[j] # c
    ELSE 0

RECURSIVE Split(_, _)
\* strings.Split(s, c): the pieces between all the occurrences of c.
Split(s, c) ==
  IF Contains(s, c)
    THEN <<SubSeq(s, 1, Index(s, c) - 1)>> \o Split(SubSeq(s, Index(s, c) + 1, Len(s)), c)
    ELSE <<s>>

RECURSIVE Join(_, _)
\* strings.Join(parts, c).
Join(parts, c) ==
  IF Len(parts) = 0
    THEN <<>>
    ELSE IF Len(parts) = 1
           THEN parts[1]
           ELSE parts[1] \o <<c>> \o Join(Tail(parts), c)

\* resolveName, util.go lines 35-44.
resolveName(name) ==
  IF Contains(name, ShareSplitIndentifer)
    THEN LET sharevol == Split(name, ShareSplitIndentifer)
         IN  [name |-> sharevol[2],
              opts |-> MkOpts([k \in {ShareOpt, CreateOpt} |->
                                 IF k = ShareOpt THEN sharevol[1] ELSE "true"])]
    ELSE [name |-> name, opts |-> NilOpts]

\* addShareColon without the test for a colon already there.
addShareColonNoCheck(share) ==
  LET source == Split(share, "/")
  IN  Join([source EXCEPT ![1] = @ \o <<":">>], "/")

\* addShareColon, util.go lines 50-57.
addShareColon(share) ==
  IF Contains(share, ":")
    THEN share
    ELSE LET source == Split(share, "/")
         IN  Join([source EXCEPT ![1] = @ \o <<":">>], "/")

InitStr ==
  /\ store = [n \in {} |-> Marshal(MkMount("", "", NilOpts, FALSE, EmptyMap))]
  /\ pc = [p \in Procs |-> "idle"]
  /\ op = [p \in Procs |-> NoOp]
  /\ mnt = [p \in Procs |-> NilMount]
  /\ ret = [p \in Procs |-> RetNone]
  /\ pre = store
  /\ rt = NoRoundTrip
  /\ e2e = NoRun
  /\ rderr = FALSE
  /\ um = NoUnmount
  /\ vault = NoSecrets
  /\ str \in {[NoString EXCEPT !.in = s] : s \in Strings}

ResolveName ==
  /\ str.fn = "none"
  /\ str' = [fn |-> "resolveName", in |-> str.in, mid |-> <<>>,
             out |-> resolveName(str.in).name, opts |-> resolveName(str.in).opts]
  /\ UNCHANGED <<store, pc, op, mnt, ret, hist, rderr, um, vault>>

AddShareColon ==
  /\ str.fn = "none"
  /\ str' = [fn |-> "addShareColon", in |-> str.in, mid |-> <<>>,
             out |-> addShareColon(str.in), opts |-> NilOpts]
  /\ UNCHANGED <<store, pc, op, mnt, ret, hist, rderr, um, vault>>

\* addShareColon applied to its own result.
AddShareColonAgain ==
  /\ str.fn = "addShareColon"
  /\ str' = [fn |-> "addShareColon twice", in |-> str.in, mid |-> str.out,
             out |-> addShareColon(str.out), opts |-> NilOpts]
  /\ UNCHANGED <<store, pc, op, mnt, ret, hist, rderr, um, vault>>

NextStr == ResolveName \/ AddShareColon \/ AddShareColonAgain

\* The string helpers on every name and share path up to MaxLen characters.
SpecStr == InitStr /\ [][NextStr]_vars

\* ------------------------------------------------------------- claims
\* The stored record of a name, decoded.
Stored(name) == Unmarshal(store[name])

\* A host's entry of a Connections map: its count, or nothing.
EntryOf(conns, h) == IF h \in DOMAIN conns THEN <<conns[h]>> ELSE <<>>

\* C1: when the Increment calls of two hosts on the same existing record
\* overlap, then once both have completed the stored Connections map holds,
\* for each of the two hosts, the count that host's call raised by one and
\* wrote.
C1_NoLostIncrement ==
  \A n \in Names :
    (\A p \in Procs : /\ pc[p] = "done"
                      /\ op[p].kind = "Increment"
                      /\ op[p].name = n
                      /\ mnt[p] # NilMount)
      => \A p \in Procs : HasMount(n) /\ Count(p, n) = ConnCount(mnt[p], p)

\* C2: no stored record ever holds a negative count for any host, and a
\* Decrement that reads a count of 0 for its host ends there, the store as
\* it was.
C2_CountsNonNegative ==
  /\ [](\A n \in DOMAIN store : \A h \in Hosts : ConnCount(Stored(n), h) >= 0)
  /\ [][\A p \in Procs :
          (pc[p] = "Decrement_get" /\ pc'[p] # pc[p] /\ Count(p, op[p].name) = 0)
            => (pc'[p] = "done" /\ store' = store /\ ret'[p] = RetInt(0))]_vars

\* A Decrement has returned on a stored record in which its host's count is 0,
\* having written nothing.
C2_Witness ==
  \E p \in Procs :
    /\ pc[p] = "done"
    /\ op[p].kind = "Decrement"
    /\ mnt[p] = NilMount
    /\ HasMount(op[p].name)
    /\ Count(p, op[p].name) = 0
    /\ \E h \in Hosts : Count(h, op[p].name) > 0

\* C3: the write that ends an Add, Create, Increment or Decrement of host p
\* leaves the entry of every other host in the record's Connections map as
\* it was stored: not changed, not reset, not removed.
C3_OtherHostsUntouched ==
  [][\A p \in Procs : \A h \in Hosts \ {p} :
       (pc[p] = "put_put" /\ pc'[p] = "done" /\ op[p].name \in DOMAIN store)
         => EntryOf(store'[op[p].name].Connections, h)
              = EntryOf(store[op[p].name].Connections, h)]_vars

\* C4: a record whose Managed flag is true leaves the store only in the
\* delete step of an explicit Delete call, never in a step of
\* DeleteIfNotManaged, whatever other calls interleave with it.
C4_ManagedOnlyExplicitDelete ==
  [][\A n \in DOMAIN store :
       (Stored(n).Managed /\ n \notin DOMAIN store')
         => \E p \in Procs : /\ pc[p] = "Delete_delete"
                             /\ pc'[p] = "done"
                             /\ op[p].name = n
                             /\ op[p].kind = "Delete"]_vars

\* C5: a Delete invoked, with no other call in progress, on a stored record
\* in which the caller's count is >= 1 returns the "in use" error, and the
\* stored record is the one stored at the invocation, field by field.
C5_DeleteInUse ==
  \A p \in Procs :
    (/\ pc[p] = "done"
     /\ op[p].kind = "Delete"
     /\ PreHas(op[p].name)
     /\ PreCount(p, op[p].name) >= 1)
      => /\ ret[p] = RetInUse
         /\ HasMount(op[p].name)
         /\ Stored(op[p].name) = PreMount(op[p].name)

\* A Delete has returned that was invoked on a record held by the caller and
\* by the other host.
C5_Witness ==
  \E p \in Procs :
    /\ pc[p] = "done"
    /\ op[p].kind = "Delete"
    /\ PreHas(op[p].name)
    /\ PreCount(p, op[p].name) >= 1
    /\ \E h \in Hosts \ {p} : PreCount(h, op[p].name) >= 1

\* C6: with no other call in progress, Increment and Decrement return the
\* caller's count as stored after the call: Increment the old count + 1 (0
\* when there is no record), Decrement the old count - 1 when the old count
\* was > 0 and 0 when it was 0.
C6_ReturnsNewCount ==
  \A p \in Procs :
    pc[p] = "done" =>
      /\ op[p].kind = "Increment" =>
           /\ ret[p] = RetInt(IF PreHas(op[p].name)
                                THEN PreCount(p, op[p].name) + 1 ELSE 0)
           /\ ret[p].int = Count(p, op[p].name)
      /\ op[p].kind = "Decrement" =>
           /\ ret[p] = RetInt(IF PreCount(p, op[p].name) > 0
                                THEN PreCount(p, op[p].name) - 1 ELSE 0)
           /\ ret[p].int = Count(p, op[p].name)

\* C7: with no other call in progress, Add on a stored record raises the
\* caller's count by one and keeps the Managed flag; Add on a name without
\* record stores a record with Managed = false and a count of 1 for the
\* caller.
C7_AddCounts ==
  \A p \in Procs :
    (pc[p] = "done" /\ op[p].kind = "Add")
      => /\ HasMount(op[p].name)
         /\ IF PreHas(op[p].name)
              THEN /\ Count(p, op[p].name) = PreCount(p, op[p].name) + 1
                   /\ Stored(op[p].name).Managed = PreMount(op[p].name).Managed
              ELSE /\ Count(p, op[p].name) = 1
                   /\ Stored(op[p].name).Managed = FALSE

\* An Add has returned that was invoked on a managed record the caller held.
C7_Witness ==
  \E p \in Procs :
    /\ pc[p] = "done"
    /\ op[p].kind = "Add"
    /\ PreHas(op[p].name)
    /\ PreMount(op[p].name).Managed
    /\ PreCount(p, op[p].name) >= 1

\* C8: an Increment on a stored record followed at once by a Decrement of
\* the same host on the same name, no call of any host in between, leaves
\* the host's stored count at what it was before the Increment.
C8_RoundTrip ==
  \A p \in Procs :
    (/\ pc[p] = "done"
     /\ op[p].kind = "Decrement"
     /\ rt.on
     /\ rt.proc = p
     /\ rt.name = op[p].name)
      => HasMount(rt.name) /\ Count(p, rt.name) = rt.count

\* The Decrement of such a pair has returned, the count before the pair
\* being 0 for one host and 1 for another.
C8_Witness ==
  /\ \E p \in Procs :
       /\ pc[p] = "done"
       /\ op[p].kind = "Decrement"
       /\ rt.on
       /\ rt.proc = p
       /\ rt.name = op[p].name
       /\ rt.count = 1
       /\ \E h \in Hosts \ {p} : Count(h, rt.name) >= 1

\* C9: with no other call in progress, Create on a stored record in which
\* the caller's count is > 0 stores the options it was given and leaves
\* Connections, Managed, Name and HostDir as stored.
C9_CreateOverwritesOpts ==
  \A p \in Procs :
    (/\ pc[p] = "done"
     /\ op[p].kind = "Create"
     /\ PreHas(op[p].name)
     /\ PreCount(p, op[p].name) > 0)
      => /\ HasMount(op[p].name)
         /\ Stored(op[p].name).Opts = op[p].opts
         /\ Stored(op[p].name).Connections = PreMount(op[p].name).Connections
         /\ Stored(op[p].name).Managed = PreMount(op[p].name).Managed
         /\ Stored(op[p].name).Name = PreMount(op[p].name).Name
         /\ Stored(op[p].name).HostDir = PreMount(op[p].name).HostDir

\* Such a Create has returned: it was given other options and another
\* directory than the record held, and the record held a count of another
\* host too.
C9_Witness ==
  \E p \in Procs :
    /\ pc[p] = "done"
    /\ op[p].kind = "Create"
    /\ PreHas(op[p].name)
    /\ PreCount(p, op[p].name) > 0
    /\ PreMount(op[p].name).Opts # op[p].opts
    /\ ~PreMount(op[p].name).Opts.isNil
    /\ PreMount(op[p].name).HostDir # op[p].hostdir
    /\ \E h \in Hosts \ {p} : PreCount(h, op[p].name) > 0

\* C10: when one host, no record being stored for the name and no other
\* call being made, calls Create, Add, Decrement and DeleteIfNotManaged in
\* turn, the record is stored with Managed = true and count 0 after Create,
\* with count 1 after Add, with count 0 after Decrement, and after
\* DeleteIfNotManaged it is still stored with Managed = true and count 0.
C10_ManagedRun ==
  (NoneDone /\ e2e.stage > 0) =>
    /\ HasMount(e2e.name)
    /\ Stored(e2e.name).Managed
    /\ e2e.stage = 1 => Count(e2e.proc, e2e.name) = 0
    /\ e2e.stage = 2 => Count(e2e.proc, e2e.name) = 1
    /\ e2e.stage = 3 => Count(e2e.proc, e2e.name) = 0
    /\ e2e.stage = 4 => Count(e2e.proc, e2e.name) = 0

\* The four calls have returned.
C10_Witness == NoneDone /\ e2e.stage = 4


\* C11: when the read inside an Add or a Create fails while a record is
\* stored for the name, the call writes no record over it: when the call
\* has returned, the stored record is the one stored before, with its
\* Connections, Opts and Managed.
C11_FailedReadKeepsRecord ==
  \A p \in Procs :
    (/\ pc[p] = "done"
     /\ op[p].kind \in {"Add", "Create"}
     /\ rderr
     /\ PreHas(op[p].name))
      => /\ op[p].name \in DOMAIN store
         /\ Stored(op[p].name).Connections = PreMount(op[p].name).Connections
         /\ Stored(op[p].name).Opts = PreMount(op[p].name).Opts
         /\ Stored(op[p].name).Managed = PreMount(op[p].name).Managed

\* C12: when Create returns, whatever the outcome of its store accesses,
\* the Mount it returns is the record stored under the name.
C12_CreateReturnsStored ==
  \A p \in Procs :
    (pc[p] = "done" /\ op[p].kind = "Create")
      => /\ op[p].name \in DOMAIN store
         /\ ret[p] = RetMount(Stored(op[p].name))


\* C13: HasOptions, HasOption, GetOptions, GetOption and GetOptionAsBool
\* never end in a fault, also when another caller deletes the record between
\* two of their reads; when the last read of a call found no record, the
\* call returns false, the empty string or the empty map.
C13_GettersNeverFault ==
  \A p \in Procs :
    (pc[p] = "done" /\ op[p].kind \in ReadKinds)
      => /\ ret[p] # RetPanic
         /\ mnt[p] = NilMount => ret[p] = GetterDefault(op[p].kind)


\* C14: when the fetch yields a secret mapping S, FillVaultConfigInOpts
\* returns the options whose keys are those of opts and of S, with S's value
\* for every key of S and opts' value for the others, and
\* FillVaultConfigInMount returns the stored record with its Opts overlaid
\* in the same way; when the fetch yields no secret, the options (the
\* record) are returned as they were.
C14_SecretsOverlay ==
  \A p \in Procs :
    (pc[p] = "done" /\ op[p].kind \in FillKinds)
      => LET S == vault.secret[op[p].name]
             m == getConsulMount(op[p].name)
         IN  /\ (vault.last = "found" /\ op[p].kind = "FillVaultConfigInOpts")
                  => ret[p] = RetOpts(MkOpts(Overlay(op[p].opts.kv, S)))
             /\ (vault.last = "found" /\ op[p].kind = "FillVaultConfigInMount"
                   /\ m # NilMount)
                  => ret[p] = RetMount([m EXCEPT !.Opts = MkOpts(Overlay(m.Opts.kv, S))])
             /\ (vault.last # "found" /\ op[p].kind = "FillVaultConfigInOpts")
                  => ret[p] = RetOpts(op[p].opts)
             /\ (vault.last # "found" /\ op[p].kind = "FillVaultConfigInMount")
                  => ret[p] = RetMount(m)

\* C15: a fetch that finds no client configured, whose login fails, whose
\* read fails or that finds no secret under the name does not end the Fill
\* call in a fault: the call returns the options (the record) unchanged.
C15_FetchNeverAborts ==
  \A p \in Procs :
    (/\ pc[p] = "done"
     /\ op[p].kind \in FillKinds
     /\ vault.last \in {"no client", "login failed", "read failed", "not found"})
      => /\ ret[p] # RetPanic
         /\ ret[p] = IF op[p].kind = "FillVaultConfigInOpts"
                       THEN RetOpts(op[p].opts)
                       ELSE RetMount(getConsulMount(op[p].name))


\* C20: with a secret mapping fetched, FillVaultConfigInMount does not end
\* in a fault whatever the store holds: it returns nil when no record is
\* stored under the name, and for a record stored by Add, whose Opts is
\* nil, it returns the record with Opts equal to the secret mapping.
C20_FillMountCompletes ==
  \A p \in Procs :
    (pc[p] = "done" /\ op[p].kind = "FillVaultConfigInMount" /\ vault.last = "found")
      => LET S == vault.secret[op[p].name]
             m == getConsulMount(op[p].name)
         IN  /\ ret[p] # RetPanic
             /\ m = NilMount => ret[p] = RetMount(NilMount)
             /\ (m # NilMount /\ m.Opts.isNil /\ ~m.Managed)
                  => ret[p] = RetMount([m EXCEPT !.Opts = MkOpts(S)])


\* C16: resolveName returns a name without '#' as it is, with no options;
\* for a name with '#' it returns the whole part to the right of the
\* separator as the volume name and exactly the options share (the part to
\* the left of the separator) and create ("true").
C16_ResolveName ==
  str.fn = "resolveName"
    => IF Contains(str.in, "#")
         THEN /\ str.out = SubSeq(str.in, Index(str.in, "#") + 1, Len(str.in))
              /\ str.opts = MkOpts([share |-> SubSeq(str.in, 1, Index(str.in, "#") - 1),
                                    create |-> "true"])
         ELSE /\ str.out = str.in
              /\ str.opts = NilOpts

\* C17: addShareColon returns a share path that contains ':' as it is, and
\* returns any other with one ':' inserted directly after its first
\* '/'-separated segment; applied to its own result it changes nothing.
C17_AddShareColon ==
  /\ str.fn \in {"addShareColon", "addShareColon twice"}
       => LET s == str.in
              r == IF str.fn = "addShareColon" THEN str.out ELSE str.mid
              k == IF Contains(s, "/") THEN Index(s, "/") ELSE Len(s) + 1
          IN  IF Contains(s, ":")
                THEN r = s
                ELSE r = SubSeq(s, 1, k - 1) \o <<":">> \o SubSeq(s, k, Len(s))
  /\ str.fn = "addShareColon twice" => str.out = str.mid

C17_Witness ==
  /\ str.fn = "addShareColon twice"
  /\ str.in = <<"a", "/", "a">>
  /\ str.mid = <<"a", ":", "/", "a">>
  /\ str.out = <<"a", ":", "/", "a">>


\* C18: when a host's Decrement has taken the only count (1) off an
\* unmanaged record and the same host calls DeleteIfNotManaged next, no
\* record is stored under the name when that call has completed; and a
\* DeleteIfNotManaged invoked with no record stored, or with the caller's
\* count above 0, returns nil and leaves the store as it was.
C18_UnmountSequence ==
  \A p \in Procs :
    (pc[p] = "done" /\ op[p].kind = "DeleteIfNotManaged")
      => /\ (um.on /\ um.proc = p /\ um.name = op[p].name) => ~HasMount(op[p].name)
         /\ (~PreHas(op[p].name) \/ PreCount(p, op[p].name) > 0)
              => (ret[p] = RetNilErr /\ store = pre)

\* The DeleteIfNotManaged that follows such a Decrement has completed.
C18_Witness ==
  \E p \in Procs :
    /\ pc[p] = "done"
    /\ op[p].kind = "DeleteIfNotManaged"
    /\ um.on /\ um.proc = p /\ um.name = op[p].name
    /\ PreHas(op[p].name)
    /\ ~HasMount(op[p].name)


\* C19: at the step where Delete or DeleteIfNotManaged removes the record
\* of a name from the store, no host, the caller or another, has a count
\* above 0 in that record.
C19_RemovedOnlyUnused ==
  [][\A p \in Procs :
       (/\ pc[p] = "Delete_delete"
        /\ op[p].name \in DOMAIN store
        /\ op[p].name \notin DOMAIN store')
         => \A h \in Hosts : Count(h, op[p].name) = 0]_vars

====
